---- MODULE Spec2Model ----
(***************************************************************************)
(* Model of the Audio-File-Tools bot (src/src/bot.js): the timecode parser *)
(* parseTimecodes, the transcoder set-up of convertToVoice, the document   *)
(* filter isAudioDocument, and the audio / document message handlers with  *)
(* processAudio's download -> transcode -> reply -> cleanup pipeline.      *)
(*                                                                         *)
(* JavaScript strings are sequences of one-character strings.  A property  *)
(* that may be missing (caption, text, mime_type, file_name) is an option  *)
(* record: Some(s) or None.                                                *)
(***************************************************************************)
EXTENDS Integers, Sequences, FiniteSets, TLC

VARIABLES
  \* ---- the parser pipeline (SpecParse): text -> parseTimecodes -> convertToVoice
  pIn,        \* the raw text handed to parseTimecodes
  pOut,       \* what parseTimecodes returned or threw
  pCmd,       \* what convertToVoice did with that result
  pPc,        \* "parse" | "convert" | "done"
  \* ---- the message handlers (Spec, SpecConc)
  msg,        \* msg[r]: the inbound message of request r (NoMsg: none)
  pc,         \* pc[r]: the await the handler of request r is suspended at
  trimRange,  \* trimRange[r]: the handler's local trimRange (Pending: null, not parsed yet)
  inputPath,  \* inputPath[r], outputPath[r]: processAudio's locals
  outputPath,
  failed,     \* failed[r]: processAudio's try block threw (an error is pending)
  unlinked,   \* unlinked[r]: which of the two unlinks of the finally have settled
  cmd,        \* cmd[r]: the ffmpeg command convertToVoice built
  sent,       \* sent[r]: the messages delivered to the chat, in order
  handler,    \* handler[r]: "pending" | "resolved" | "rejected" | "next"
  caught,     \* caught[r]: bot.catch ran for this update
  files,      \* the files that exist in tmpRoot
  stream,     \* stream[r]: the write stream of downloadFile: "none" | "opening" | "open"
  now,        \* Date.now() as last read, in milliseconds since the first read
  uuids       \* number of crypto.randomUUID() values handed out

parseVars == <<pIn, pOut, pCmd, pPc>>
botVars == <<msg, pc, trimRange, inputPath, outputPath, failed, unlinked, cmd,
             sent, handler, caught, files, stream, now, uuids>>
vars == <<pIn, pOut, pCmd, pPc, msg, pc, trimRange, inputPath, outputPath,
          failed, unlinked, cmd, sent, handler, caught, files, stream, now, uuids>>

(***************************************************************************)
(* Bounds of the model.                                                    *)
(***************************************************************************)
MaxTokens == 4    \* a parser input is a concatenation of at most MaxTokens tokens
NReq == 2         \* requests in flight at once (SpecConc)

(***************************************************************************)
(* Strings and options.                                                    *)
(***************************************************************************)
Some(s) == [has |-> TRUE, v |-> s]
None == [has |-> FALSE, v |-> <<>>]

Max(S) == CHOOSE x \in S : \A y \in S : y <= x
Min(S) == CHOOSE x \in S : \A y \in S : x <= y

DigitChars == {"0", "1", "2", "3", "4", "5", "6", "7", "8", "9"}
LowerChars == {"a", "b", "c", "d", "e", "f", "g", "h", "i", "j", "k", "l", "m",
               "n", "o", "p", "q", "r", "s", "t", "u", "v", "w", "x", "y", "z"}
UpperChars == {"A", "B", "C", "D", "E", "F", "G", "H", "I", "J", "K", "L", "M",
               "N", "O", "P", "Q", "R", "S", "T", "U", "V", "W", "X", "Y", "Z"}

\* The 25 characters \s matches: WhiteSpace and LineTerminator of ECMAScript.
\* TAB, LF, FF, CR are written as escapes and VT (U+000B) as itself; a character
\* outside ASCII is written by the name of its code point, so that each is a
\* value of its own, different from every other character.
SpaceChars ==
  {" ", "\t", "\n", "\r", "\f", "", "U+00A0", "U+1680", "U+FEFF",
   "U+2000", "U+2001", "U+2002", "U+2003", "U+2004", "U+2005", "U+2006",
   "U+2007", "U+2008", "U+2009", "U+200A", "U+2028", "U+2029", "U+202F",
   "U+205F", "U+3000"}

\* \d, \s and \w of a JavaScript regular expression without the u flag.
IsDigit(c) == c \in DigitChars
IsSpace(c) == c \in SpaceChars
IsWordChar(c) == c \in DigitChars \cup LowerChars \cup UpperChars \cup {"_"}

DigitVal(c) ==
  CASE c = "0" -> 0 [] c = "1" -> 1 [] c = "2" -> 2 [] c = "3" -> 3
    [] c = "4" -> 4 [] c = "5" -> 5 [] c = "6" -> 6 [] c = "7" -> 7
    [] c = "8" -> 8 [] c = "9" -> 9

\* String.prototype.toLowerCase on the letters a file extension is made of
\* (what the i flag of the extension pattern folds).
ToLower(c) ==
  CASE c = "A" -> "a" [] c = "C" -> "c" [] c = "F" -> "f" [] c = "G" -> "g"
    [] c = "L" -> "l" [] c = "M" -> "m" [] c = "O" -> "o" [] c = "P" -> "p"
    [] c = "V" -> "v" [] c = "W" -> "w" [] c = "D" -> "d" [] c = "T" -> "t"
    [] OTHER -> c

StartsWith(s, prefix) ==
  /\ Len(prefix) <= Len(s)
  /\ SubSeq(s, 1, Len(prefix)) = prefix

\* s ends with t, compared case-insensitively.
EndsWithIgnoreCase(s, t) ==
  /\ Len(t) <= Len(s)
  /\ \A k \in 1..Len(t) : ToLower(s[Len(s) - Len(t) + k]) = t[k]

(***************************************************************************)
(* parseTimecodes (bot.js 96-119).                                         *)
(***************************************************************************)
MaxDigits == 4    \* the {1,4} of /\b(\d{1,4})\s*:\s*(\d{1,4})\b/

\* \b before position p (1..Len(s)+1): exactly one side is a word character.
WordBoundary(s, p) ==
  (p > 1 /\ IsWordChar(s[p - 1])) # (p <= Len(s) /\ IsWordChar(s[p]))

\* \s* from position p: the position after the whitespace (greedy; what follows
\* in the pattern is never whitespace, so giving whitespace back never helps).
RECURSIVE SkipSpaces(_, _)
SkipSpaces(s, p) ==
  IF p <= Len(s) /\ IsSpace(s[p]) THEN SkipSpaces(s, p + 1) ELSE p

\* Mutant: \d+ instead of \d{1,4}.
DigitCountsUnbounded(s, p) ==
  {k \in 1..Len(s) : p + k - 1 <= Len(s) /\ \A d \in 0..(k - 1) : IsDigit(s[p + d])}

\* The k for which s[p..p+k-1] is \d{1,4}.
DigitCounts(s, p) ==
  {k \in 1..MaxDigits : p + k - 1 <= Len(s) /\ \A d \in 0..(k - 1) : IsDigit(s[p + d])}

\* (\d{1,4})\b from position p: the lengths the second group can take.
SecondGroup(s, p) == {m \in DigitCounts(s, p) : WordBoundary(s, p + m)}

\* \s*:\s*(\d{1,4})\b from position p.
TailAt(s, p) ==
  LET c == SkipSpaces(s, p)
      q == SkipSpaces(s, c + 1)
  IN  IF c <= Len(s) /\ s[c] = ":" /\ SecondGroup(s, q) # {}
      THEN [ok |-> TRUE, from |-> q, len |-> Max(SecondGroup(s, q))]
      ELSE [ok |-> FALSE, from |-> 0, len |-> 0]

NoMatch == [found |-> FALSE, index |-> 0, g1 |-> <<>>, g2 |-> <<>>]

\* The whole pattern tried at start position i: the first group takes the longest
\* digit count after which the rest matches (greedy, with backtracking).
MatchAt(s, i) ==
  LET ks == {k \in DigitCounts(s, i) : TailAt(s, i + k).ok}
  IN  IF WordBoundary(s, i) /\ ks # {}
      THEN LET k == Max(ks)
               t == TailAt(s, i + k)
           IN  [found |-> TRUE, index |-> i,
                g1 |-> SubSeq(s, i, i + k - 1),
                g2 |-> SubSeq(s, t.from, t.from + t.len - 1)]
      ELSE NoMatch

\* Mutant: the last match of the text is taken.
RegexMatchLast(s) ==
  LET starts == {i \in 1..Len(s) : MatchAt(s, i).found}
  IN  IF starts = {} THEN NoMatch ELSE MatchAt(s, Max(starts))

\* rawText.match(pattern): the match at the leftmost start position that has one.
RegexMatch(s) ==
  LET starts == {i \in 1..Len(s) : MatchAt(s, i).found}
  IN  IF starts = {} THEN NoMatch ELSE MatchAt(s, Min(starts))

\* Number(str) for the strings the groups can hold: decimal digits (leading
\* zeros allowed); the empty string is 0; anything else is NaN.
RECURSIVE DecimalValue(_)
DecimalValue(t) ==
  IF t = <<>> THEN 0
  ELSE 10 * DecimalValue(SubSeq(t, 1, Len(t) - 1)) + DigitVal(t[Len(t)])

Number(t) ==
  IF \A k \in 1..Len(t) : IsDigit(t[k])
  THEN [nan |-> FALSE, n |-> DecimalValue(t)]
  ELSE [nan |-> TRUE, n |-> 0]

NullResult == [tag |-> "null", start |-> 0, end |-> 0, reason |-> "none"]
RangeResult(a, b) == [tag |-> "range", start |-> a, end |-> b, reason |-> "none"]
\* A thrown TimecodeParseError.  Lines 114-116 throw one message for start < 0 and
\* for end <= start; reason keeps apart which of the two tests was true.
ParseError(why) == [tag |-> "TimecodeParseError", start |-> 0, end |-> 0, reason |-> why]

\* Mutant: the ordering check accepts end == start.
parseTimecodesAllowsEqual(rawText) ==
  IF rawText = <<>> THEN NullResult
  ELSE LET match == RegexMatch(rawText) IN
    IF ~match.found THEN NullResult
    ELSE LET start == Number(match.g1)
             end == Number(match.g2)
         IN  IF start.nan \/ end.nan THEN ParseError("nan")
             ELSE IF start.n < 0 THEN ParseError("start < 0")
             ELSE IF end.n < start.n THEN ParseError("end <= start")
             ELSE RangeResult(start.n, end.n)

parseTimecodes(rawText) ==
  IF rawText = <<>> THEN NullResult                       \* !rawText
  ELSE LET match == RegexMatch(rawText) IN
    IF ~match.found THEN NullResult
    ELSE LET start == Number(match.g1)
             end == Number(match.g2)
         IN  IF start.nan \/ end.nan THEN ParseError("nan")
             ELSE IF start.n < 0 THEN ParseError("start < 0")
             ELSE IF end.n <= start.n THEN ParseError("end <= start")
             ELSE RangeResult(start.n, end.n)

(***************************************************************************)
(* convertToVoice (bot.js 49-94): the start time and duration it sets on   *)
(* the ffmpeg command, or its rejection of a non-positive duration.        *)
(***************************************************************************)
Num(n) == [isNum |-> TRUE, n |-> n]
Undefined == [isNum |-> FALSE, n |-> 0]

NoCmd == [state |-> "none", startTime |-> Undefined, duration |-> Undefined]
Rejected == [state |-> "rejected", startTime |-> Undefined, duration |-> Undefined]
Command(st, du) == [state |-> "spawned", startTime |-> st, duration |-> du]

\* Mutant: an absent trim range is treated as a range starting at 0.
convertToVoiceDefaultStart(range) ==
  IF range.tag = "range"
  THEN IF range.end - range.start <= 0 THEN Rejected
       ELSE Command(Num(range.start), Num(range.end - range.start))
  ELSE Command(Num(0), Undefined)

\* range is the handler's trimRange: NullResult or RangeResult(start, end), whose
\* start and end are numbers (the typeof tests of lines 56-59 are all true).
convertToVoice(range) ==
  IF range.tag = "range"
  THEN LET calculatedDuration == range.end - range.start
       IN  IF calculatedDuration <= 0 THEN Rejected
           ELSE Command(Num(range.start), Num(calculatedDuration))
  ELSE Command(Undefined, Undefined)

(***************************************************************************)
(* isAudioDocument (bot.js 143-153), path.extname and buildTempPath        *)
(* (bot.js 39-42).                                                         *)
(***************************************************************************)
AudioPrefix == <<"a", "u", "d", "i", "o", "/">>
AudioExtensions ==
  { <<".", "m", "p", "3">>, <<".", "w", "a", "v">>, <<".", "m", "4", "a">>,
    <<".", "f", "l", "a", "c">>, <<".", "a", "a", "c">>, <<".", "o", "g", "g">>,
    <<".", "o", "g", "a">> }

\* Mutant: only the MIME type is looked at.
isAudioDocumentMimeOnly(document) ==
  document.mime_type.has /\ StartsWith(document.mime_type.v, AudioPrefix)

\* document is ctx.message.document, which a 'document' update always carries
\* (the !document test of line 144 is false).  An empty string is falsy.
isAudioDocument(document) ==
  IF /\ document.mime_type.has
     /\ document.mime_type.v # <<>>
     /\ StartsWith(document.mime_type.v, AudioPrefix)
  THEN TRUE
  ELSE /\ document.file_name.has
       /\ document.file_name.v # <<>>
       /\ \E e \in AudioExtensions : EndsWithIgnoreCase(document.file_name.v, e)

\* path.extname (POSIX): trailing slashes are skipped and only the last segment
\* of the path is looked at: from its last dot to its end, or empty when it has no
\* dot, when its last dot is its first character, or when it is "..".
extname(name) ==
  LET nonSlash == {i \in 1..Len(name) : name[i] # "/"}
  IN  IF nonSlash = {} THEN <<>>
      ELSE LET end == Max(nonSlash)
               slashes == {i \in 1..end : name[i] = "/"}
               startPart == IF slashes = {} THEN 1 ELSE Max(slashes) + 1
               dots == {i \in startPart..end : name[i] = "."}
           IN  IF \/ dots = {}
                  \/ Max(dots) = startPart
                  \/ (end = startPart + 1 /\ name[startPart] = "." /\ name[end] = ".")
               THEN <<>>
               ELSE SubSeq(name, Max(dots), end)

NoPath == [stamp |-> 0 - 1, uuid |-> 0, suffix |-> <<>>]

\* Mutant: the random identifier is left out of the name.
buildTempPathNoUuid(stamp, uuid, ext) ==
  [stamp |-> stamp, uuid |-> 0,
   suffix |-> IF ext # <<>> /\ ext[1] = "." THEN ext
              ELSE IF ext # <<>> THEN <<".">> \o ext ELSE <<>>]

\* `${Date.now()}-${crypto.randomUUID()}${suffix}` under tmpRoot; stamp and uuid
\* are the values the two calls returned.
buildTempPath(stamp, uuid, ext) ==
  [stamp |-> stamp, uuid |-> uuid,
   suffix |-> IF ext # <<>> /\ ext[1] = "." THEN ext
              ELSE IF ext # <<>> THEN <<".">> \o ext ELSE <<>>]

(***************************************************************************)
(* Messages.                                                               *)
(***************************************************************************)
Reqs == 1..NReq

NoMsg == [kind |-> "none", mime_type |-> None, file_name |-> None,
          caption |-> None, text |-> None]

FileUniqueId == <<"A", "g", "A", "D">>     \* file_unique_id: no dot in it
DotTmp == <<".", "t", "m", "p">>
DotOgg == <<".", "o", "g", "g">>

\* a || b || '' on optional strings: the first that is present and non-empty.
OrElse(a, b) ==
  IF a.has /\ a.v # <<>> THEN a.v ELSE IF b.has /\ b.v # <<>> THEN b.v ELSE <<>>

\* message.caption || message.text || '' of extractTimecodesFromMessage (156).
RawText(m) == OrElse(m.caption, m.text)

\* extractTimecodesFromMessage (155-165): parseTimecodes throws nothing but a
\* TimecodeParseError, which is passed on unchanged.
extractTimecodesFromMessage(m) == parseTimecodes(RawText(m))

\* file_name || file_unique_id, the filenameHint of processAudio.
FilenameHint(m) == OrElse(m.file_name, Some(FileUniqueId))

\* path.extname(filenameHint || '') || '.tmp' (123).
InputExt(m) ==
  IF extname(FilenameHint(m)) # <<>> THEN extname(FilenameHint(m)) ELSE DotTmp

(***************************************************************************)
(* The handlers.  pc[r] names the collaborator call the handler of request *)
(* r is awaiting.                                                          *)
(***************************************************************************)
HintMessage == "hint"          \* 'Не удалось понять таймкоды. ...' (177, 208)
ApologyMessage == "apology"    \* 'Не получилось обработать файл. ...' (190, 226)
GenericMessage == "generic"    \* 'Случилась ошибка. ...' (233)
VoiceMessage == "voice"        \* the replyWithVoice payload (134)
FailureMessages == {HintMessage, ApologyMessage, GenericMessage}

\* The handler calls a collaborator and suspends until it settles.
Invoke(r, call) == pc' = [pc EXCEPT ![r] = call]

\* The async handler function returns: its promise resolves.
Return(r) ==
  /\ pc' = [pc EXCEPT ![r] = "done"]
  /\ handler' = [handler EXCEPT ![r] = "resolved"]

\* An await inside a catch block (or outside any try) rejects: the handler's
\* promise rejects, which Telegraf hands to bot.catch.
Reject(r) ==
  /\ pc' = [pc EXCEPT ![r] = "rejected"]
  /\ handler' = [handler EXCEPT ![r] = "rejected"]

\* Mutant: the handler has no catch around processAudio.
CatchUncaught(r) ==
  /\ pc' = [pc EXCEPT ![r] = "rejected"]
  /\ handler' = [handler EXCEPT ![r] = "rejected"]

\* processAudio threw: the handler's catch logs and awaits ctx.reply(apology)
\* (188-191, 224-227).
Catch(r) ==
  /\ Invoke(r, "reply:apology")
  /\ handler' = handler

\* An await inside processAudio's try block rejects: the finally block runs with
\* the error pending and starts both unlinks (135-139).
Throw(r) ==
  /\ failed' = [failed EXCEPT ![r] = TRUE]
  /\ Invoke(r, "unlink")
  /\ handler' = handler

\* The part of both handlers from the timecode parsing on (171-191, 202-227),
\* up to the first await: the hint reply, or processAudio's ensureTmpDir.
ParseAndProcess(r) ==
  LET res == extractTimecodesFromMessage(msg[r]) IN
  /\ trimRange' = [trimRange EXCEPT ![r] = res]
  /\ pc' = [pc EXCEPT ![r] = IF res.tag = "TimecodeParseError" THEN "reply:hint" ELSE "mkdir"]
  /\ UNCHANGED <<msg, inputPath, outputPath, failed, unlinked, cmd, sent, handler,
                 caught, files, stream, now, uuids>>

\* bot.on('audio') (169-192).
OnAudio(r) ==
  /\ pc[r] = "update"
  /\ msg[r].kind = "audio"
  /\ ParseAndProcess(r)

\* bot.on('document') (194-228): a document that is no audio goes to next().
OnDocument(r) ==
  /\ pc[r] = "update"
  /\ msg[r].kind = "document"
  /\ IF isAudioDocument(msg[r])
     THEN ParseAndProcess(r)
     ELSE /\ pc' = [pc EXCEPT ![r] = "done"]
          /\ handler' = [handler EXCEPT ![r] = "next"]
          /\ UNCHANGED <<msg, trimRange, inputPath, outputPath, failed, unlinked, cmd,
                         sent, caught, files, stream, now, uuids>>

\* Mutant: the handler does not return after the hint.
HintRepliedFallsThrough(r) ==
  /\ pc[r] = "reply:hint"
  /\ sent' = [sent EXCEPT ![r] = Append(@, HintMessage)]
  /\ Invoke(r, "mkdir")
  /\ UNCHANGED <<msg, trimRange, inputPath, outputPath, failed, unlinked, cmd,
                 handler, caught, files, stream, now, uuids>>

\* await ctx.reply(hint) settles (177-178, 208-209).
HintReplied(r) ==
  /\ pc[r] = "reply:hint"
  /\ \E ok \in BOOLEAN :
       IF ok THEN /\ sent' = [sent EXCEPT ![r] = Append(@, HintMessage)]
                  /\ Return(r)
             ELSE /\ sent' = sent
                  /\ Reject(r)
  /\ UNCHANGED <<msg, trimRange, inputPath, outputPath, failed, unlinked, cmd,
                 caught, files, stream, now, uuids>>

\* await ensureTmpDir() settles (122); on success the two paths are built and
\* getFileLink is called (123-128).  now counts the milliseconds since the clock
\* was first read: the clock may have ticked since the last read (tick), and it
\* may tick again between the Date.now() of line 124 and that of line 125 (tock).
\* A failure is thrown before the try block is entered, so it reaches the
\* handler's catch with no finally in between.
TmpDirEnsured(r) ==
  /\ pc[r] = "mkdir"
  /\ \E ok \in BOOLEAN, tick \in {0, 1}, tock \in {0, 1} :
       IF ok
       THEN /\ tick = 1 => uuids > 0
            /\ now' = now + tick + tock
            /\ inputPath' = [inputPath EXCEPT ![r] =
                               buildTempPath(now + tick, uuids + 1, InputExt(msg[r]))]
            /\ outputPath' = [outputPath EXCEPT ![r] =
                               buildTempPath(now + tick + tock, uuids + 2, DotOgg)]
            /\ uuids' = uuids + 2
            /\ Invoke(r, "getFileLink")
            /\ handler' = handler
       ELSE /\ tick = 0 /\ tock = 0
            /\ Catch(r)
            /\ UNCHANGED <<inputPath, outputPath, now, uuids>>
  /\ UNCHANGED <<msg, trimRange, failed, unlinked, cmd, sent, caught, files, stream>>

\* await ctx.telegram.getFileLink(fileId) settles (128); then downloadFile (129).
FileLinkResolved(r) ==
  /\ pc[r] = "getFileLink"
  /\ \E ok \in BOOLEAN :
       IF ok THEN Invoke(r, "downloadFile") /\ UNCHANGED <<failed, handler>>
             ELSE Throw(r)
  /\ UNCHANGED <<msg, trimRange, inputPath, outputPath, unlinked, cmd, sent,
                 caught, files, stream, now, uuids>>

\* downloadFile, first await (45): axios.get settles.  Its rejection is thrown
\* out of downloadFile before any write stream exists; with the response in hand
\* fs.createWriteStream(dest) starts to open the file and pipeline is awaited (46).
AxiosGetSettled(r) ==
  /\ pc[r] = "downloadFile"
  /\ stream[r] = "none"
  /\ \E ok \in BOOLEAN :
       IF ok THEN /\ stream' = [stream EXCEPT ![r] = "opening"]
                  /\ UNCHANGED <<pc, failed, handler>>
             ELSE /\ stream' = stream
                  /\ Throw(r)
  /\ UNCHANGED <<msg, trimRange, inputPath, outputPath, unlinked, cmd, sent,
                 caught, files, now, uuids>>

\* The open of the write stream completes (46): the file is created, empty.  The
\* open was handed to the thread pool when the stream was made and completes
\* whatever has become of the pipeline and of the request since.
WriteStreamOpened(r) ==
  /\ stream[r] = "opening"
  /\ stream' = [stream EXCEPT ![r] = "open"]
  /\ files' = files \cup {inputPath[r]}
  /\ UNCHANGED <<msg, pc, trimRange, inputPath, outputPath, failed, unlinked, cmd,
                 sent, handler, caught, now, uuids>>

\* downloadFile, second await (46): pipeline settles, and with it downloadFile
\* (129).  It resolves when the whole response is in the file, which the stream
\* has opened by then; it rejects when the response stream fails, be it after the
\* file was created (a partial file stays) or before the open has completed.
Downloaded(r) ==
  /\ pc[r] = "downloadFile"
  /\ stream[r] # "none"
  /\ \E ok \in BOOLEAN :
       /\ ok => stream[r] = "open"
       /\ IF ok THEN Invoke(r, "sendChatAction") /\ UNCHANGED <<failed, handler>>
                ELSE Throw(r)
  /\ UNCHANGED <<msg, trimRange, inputPath, outputPath, unlinked, cmd, sent,
                 caught, files, stream, now, uuids>>

\* await ctx.sendChatAction('record_voice') settles (131); then convertToVoice
\* builds the command and starts ffmpeg, or rejects (132).
ChatActionSent(r) ==
  /\ pc[r] = "sendChatAction"
  /\ \E ok \in BOOLEAN :
       IF ok
       THEN /\ cmd' = [cmd EXCEPT ![r] = convertToVoice(trimRange[r])]
            /\ IF convertToVoice(trimRange[r]).state = "rejected"
               THEN Throw(r)
               ELSE Invoke(r, "ffmpeg") /\ UNCHANGED <<failed, handler>>
       ELSE /\ cmd' = cmd
            /\ Throw(r)
  /\ UNCHANGED <<msg, trimRange, inputPath, outputPath, unlinked, sent,
                 caught, files, stream, now, uuids>>

\* ffmpeg emits 'end' or 'error' (90-92): it ends only if it could read the input
\* file; an error may leave a partial output file.  Then replyWithVoice (134).
Transcoded(r) ==
  /\ pc[r] = "ffmpeg"
  /\ \E outcome \in {"end", "error", "error, partial file"} :
       /\ outcome = "end" => inputPath[r] \in files
       /\ files' = IF outcome = "error" THEN files ELSE files \cup {outputPath[r]}
       /\ IF outcome = "end"
          THEN Invoke(r, "replyWithVoice") /\ UNCHANGED <<failed, handler>>
          ELSE Throw(r)
  /\ UNCHANGED <<msg, trimRange, inputPath, outputPath, unlinked, cmd, sent,
                 caught, stream, now, uuids>>

\* await ctx.replyWithVoice(...) settles (134); it cannot succeed without the
\* output file.  Either way the finally block runs next (135-139).
VoiceReplied(r) ==
  /\ pc[r] = "replyWithVoice"
  /\ \E ok \in BOOLEAN :
       /\ ok => outputPath[r] \in files
       /\ IF ok THEN /\ sent' = [sent EXCEPT ![r] = Append(@, VoiceMessage)]
                     /\ Invoke(r, "unlink")
                     /\ UNCHANGED <<failed, handler>>
               ELSE /\ sent' = sent
                    /\ Throw(r)
  /\ UNCHANGED <<msg, trimRange, inputPath, outputPath, unlinked, cmd,
                 caught, files, stream, now, uuids>>

\* One of the two unlinks of the finally block settles (136-139): the file is
\* removed, or the unlink fails (ENOENT: there is no such file; EPERM and the
\* like: the file stays) and the failure is swallowed.  When both have settled,
\* Promise.allSettled resolves and processAudio either returns or rethrows the
\* pending error to the handler's catch.
UnlinkSettled(r, which) ==
  /\ pc[r] = "unlink"
  /\ which \notin unlinked[r]
  /\ \E ok \in BOOLEAN :
       files' = IF ok THEN files \ {IF which = "input" THEN inputPath[r] ELSE outputPath[r]}
                     ELSE files
  /\ unlinked' = [unlinked EXCEPT ![r] = @ \cup {which}]
  /\ IF unlinked[r] \cup {which} = {"input", "output"}
     THEN IF failed[r] THEN Catch(r) ELSE Return(r)
     ELSE UNCHANGED <<pc, handler>>
  /\ UNCHANGED <<msg, trimRange, inputPath, outputPath, failed, cmd, sent,
                 caught, stream, now, uuids>>

UnlinkInput(r) == UnlinkSettled(r, "input")
UnlinkOutput(r) == UnlinkSettled(r, "output")

\* Mutant: the catch block rethrows after it has sent the apology.
ApologyRepliedRethrows(r) ==
  /\ pc[r] = "reply:apology"
  /\ sent' = [sent EXCEPT ![r] = Append(@, ApologyMessage)]
  /\ Reject(r)
  /\ UNCHANGED <<msg, trimRange, inputPath, outputPath, failed, unlinked, cmd,
                 caught, files, stream, now, uuids>>

\* await ctx.reply(apology) in the handler's catch block settles (190, 226).
\* Nothing guards this await: its rejection rejects the handler.
ApologyReplied(r) ==
  /\ pc[r] = "reply:apology"
  /\ \E ok \in BOOLEAN :
       IF ok THEN /\ sent' = [sent EXCEPT ![r] = Append(@, ApologyMessage)]
                  /\ Return(r)
             ELSE /\ sent' = sent
                  /\ Reject(r)
  /\ UNCHANGED <<msg, trimRange, inputPath, outputPath, failed, unlinked, cmd,
                 caught, files, stream, now, uuids>>

\* bot.catch (230-235): logs and calls ctx.reply(generic) without awaiting it.
BotCatch(r) ==
  /\ pc[r] = "rejected"
  /\ caught' = [caught EXCEPT ![r] = TRUE]
  /\ Invoke(r, "reply:generic")
  /\ UNCHANGED <<msg, trimRange, inputPath, outputPath, failed, unlinked, cmd,
                 sent, handler, files, stream, now, uuids>>

\* The reply of bot.catch settles; its rejection is handled by nobody.
GenericReplied(r) ==
  /\ pc[r] = "reply:generic"
  /\ \E ok \in BOOLEAN :
       sent' = [sent EXCEPT ![r] = IF ok THEN Append(@, GenericMessage) ELSE @]
  /\ pc' = [pc EXCEPT ![r] = "done"]
  /\ UNCHANGED <<msg, trimRange, inputPath, outputPath, failed, unlinked, cmd,
                 handler, caught, files, stream, now, uuids>>

(***************************************************************************)
(* Inputs.                                                                 *)
(***************************************************************************)
T0 == <<"0">>
T40 == <<"4", "0">>
T9999 == <<"9", "9", "9", "9">>
TColon == <<":">>
TSpace == <<" ">>
TFormFeed == <<"\f">>
TLetter == <<"a">>
TDash == <<"-">>
T0to40 == <<"0", ":", "4", "0">>
Tokens == {T0, T40, T9999, TColon, TSpace, TFormFeed, TLetter, TDash, T0to40}

RECURSIVE Concats(_)
Concats(k) ==
  IF k = 0 THEN {<<>>} ELSE {t \o tok : t \in Concats(k - 1), tok \in Tokens}

\* The examples of the specification.
SkipTo040Please ==
  <<"s", "k", "i", "p", " ", "t", "o", " ", "0", ":", "4", "0", " ",
    "p", "l", "e", "a", "s", "e">>
T12to345 == <<"1", "2", " ", ":", " ", "3", "4", "5">>
T40to10 == <<"4", "0", ":", "1", "0">>
T5to5 == <<"5", ":", "5">>
THi == <<"h", "i">>
\* Whitespace other than the blank around the colon: form feed, no-break space,
\* vertical tab, em space.
T0ff40 == <<"0", "\f", ":", "4", "0">>
T5ff5 == <<"5", "\f", ":", "5">>
T1to2Nbsp == <<"1", ":", "U+00A0", "2">>
T1vt2 == <<"1", "", ":", "2">>
T3to4EmSpace == <<"3", "U+2003", ":", "4">>
Examples == {SkipTo040Please, T12to345, T40to10, T5to5, T0ff40, T5ff5, T1to2Nbsp,
             T1vt2, T3to4EmSpace}

ParseInputs == UNION {Concats(k) : k \in 0..MaxTokens} \cup Examples

MimeTypes ==
  { None,
    Some(<<"a", "u", "d", "i", "o", "/", "m", "p", "e", "g">>),
    Some(<<"A", "u", "d", "i", "o", "/", "o", "g", "g">>),
    Some(<<"a", "p", "p", "l", "i", "c", "a", "t", "i", "o", "n", "/", "p", "d", "f">>) }
FileNames ==
  { None,
    Some(<<"a", ".", "m", "p", "3">>),
    Some(<<"b", ".", "O", "G", "A">>),
    Some(<<"c", ".", "p", "d", "f">>),
    Some(<<"m", "p", "3">>),
    Some(DotOgg),
    Some(<<"a", ".", "b", "/", "c">>) }
Captions ==
  {None, Some(<<>>), Some(T0to40), Some(T40to10), Some(THi), Some(T0ff40), Some(T5ff5)}
MessageTexts == {None, Some(T0to40)}

Messages ==
  [kind : {"audio", "document"}, mime_type : MimeTypes, file_name : FileNames,
   caption : Captions, text : MessageTexts]

\* The message of the concurrent runs: an audio file whose temporary input file
\* gets the extension of the output file, with a trim range.
ConcMessages ==
  { [kind |-> "audio", mime_type |-> None, file_name |-> Some(<<"d", ".", "o", "g", "g">>),
     caption |-> Some(T0to40), text |-> None] }

(***************************************************************************)
(* Specifications.                                                         *)
(***************************************************************************)
Pending == [tag |-> "pending", start |-> 0, end |-> 0, reason |-> "none"]

ParserIdle ==
  /\ pIn = <<>>
  /\ pOut = Pending
  /\ pCmd = NoCmd
  /\ pPc = "idle"

BotInit(m) ==
  /\ msg = m
  /\ pc = [r \in Reqs |-> IF m[r] = NoMsg THEN "idle" ELSE "update"]
  /\ trimRange = [r \in Reqs |-> Pending]
  /\ inputPath = [r \in Reqs |-> NoPath]
  /\ outputPath = [r \in Reqs |-> NoPath]
  /\ failed = [r \in Reqs |-> FALSE]
  /\ unlinked = [r \in Reqs |-> {}]
  /\ cmd = [r \in Reqs |-> NoCmd]
  /\ sent = [r \in Reqs |-> <<>>]
  /\ handler = [r \in Reqs |-> "pending"]
  /\ caught = [r \in Reqs |-> FALSE]
  /\ files = {}
  /\ stream = [r \in Reqs |-> "none"]
  /\ now = 0
  /\ uuids = 0

\* One update, of any shape.
Init ==
  /\ ParserIdle
  /\ \E m \in Messages : BotInit([r \in Reqs |-> IF r = 1 THEN m ELSE NoMsg])

\* NReq updates handled at once.
InitConc ==
  /\ ParserIdle
  /\ \E m \in [Reqs -> ConcMessages] : BotInit(m)

Next ==
  \/ \E r \in Reqs : OnAudio(r) /\ UNCHANGED parseVars
  \/ \E r \in Reqs : OnDocument(r) /\ UNCHANGED parseVars
  \/ \E r \in Reqs : HintReplied(r) /\ UNCHANGED parseVars
  \/ \E r \in Reqs : TmpDirEnsured(r) /\ UNCHANGED parseVars
  \/ \E r \in Reqs : FileLinkResolved(r) /\ UNCHANGED parseVars
  \/ \E r \in Reqs : AxiosGetSettled(r) /\ UNCHANGED parseVars
  \/ \E r \in Reqs : WriteStreamOpened(r) /\ UNCHANGED parseVars
  \/ \E r \in Reqs : Downloaded(r) /\ UNCHANGED parseVars
  \/ \E r \in Reqs : ChatActionSent(r) /\ UNCHANGED parseVars
  \/ \E r \in Reqs : Transcoded(r) /\ UNCHANGED parseVars
  \/ \E r \in Reqs : VoiceReplied(r) /\ UNCHANGED parseVars
  \/ \E r \in Reqs : UnlinkInput(r) /\ UNCHANGED parseVars
  \/ \E r \in Reqs : UnlinkOutput(r) /\ UNCHANGED parseVars
  \/ \E r \in Reqs : ApologyReplied(r) /\ UNCHANGED parseVars
  \/ \E r \in Reqs : BotCatch(r) /\ UNCHANGED parseVars
  \/ \E r \in Reqs : GenericReplied(r) /\ UNCHANGED parseVars

Spec == Init /\ [][Next]_vars

\* The steps of requests whose message is an audio message with well-formed
\* timecodes: Next without the document handler and the hint reply.
NextConc ==
  \/ \E r \in Reqs : OnAudio(r) /\ UNCHANGED parseVars
  \/ \E r \in Reqs : TmpDirEnsured(r) /\ UNCHANGED parseVars
  \/ \E r \in Reqs : FileLinkResolved(r) /\ UNCHANGED parseVars
  \/ \E r \in Reqs : AxiosGetSettled(r) /\ UNCHANGED parseVars
  \/ \E r \in Reqs : WriteStreamOpened(r) /\ UNCHANGED parseVars
  \/ \E r \in Reqs : Downloaded(r) /\ UNCHANGED parseVars
  \/ \E r \in Reqs : ChatActionSent(r) /\ UNCHANGED parseVars
  \/ \E r \in Reqs : Transcoded(r) /\ UNCHANGED parseVars
  \/ \E r \in Reqs : VoiceReplied(r) /\ UNCHANGED parseVars
  \/ \E r \in Reqs : UnlinkInput(r) /\ UNCHANGED parseVars
  \/ \E r \in Reqs : UnlinkOutput(r) /\ UNCHANGED parseVars
  \/ \E r \in Reqs : ApologyReplied(r) /\ UNCHANGED parseVars
  \/ \E r \in Reqs : BotCatch(r) /\ UNCHANGED parseVars
  \/ \E r \in Reqs : GenericReplied(r) /\ UNCHANGED parseVars

SpecConc == InitConc /\ [][NextConc]_vars

\* The parser on its own: a text is parsed, and what parseTimecodes returned is
\* handed to convertToVoice as the handlers do.
InitParse ==
  /\ pIn \in ParseInputs
  /\ pOut = Pending
  /\ pCmd = NoCmd
  /\ pPc = "parse"
  /\ BotInit([r \in Reqs |-> NoMsg])

ParseStep ==
  /\ pPc = "parse"
  /\ pOut' = parseTimecodes(pIn)
  /\ pPc' = IF parseTimecodes(pIn).tag = "TimecodeParseError" THEN "done" ELSE "convert"
  /\ UNCHANGED <<pIn, pCmd>>
  /\ UNCHANGED botVars

ConvertStep ==
  /\ pPc = "convert"
  /\ pCmd' = convertToVoice(pOut)
  /\ pPc' = "done"
  /\ UNCHANGED <<pIn, pOut>>
  /\ UNCHANGED botVars

NextParse == ParseStep \/ ConvertStep

SpecParse == InitParse /\ [][NextParse]_vars

(***************************************************************************)
(* What the specification calls a qualifying pair, stated from the colon   *)
(* outwards: around a colon, after optional whitespace on either side, a   *)
(* whole run of 1 to 4 digits on the left that no word character precedes  *)
(* and a whole run of 1 to 4 digits on the right that no word character    *)
(* follows.                                                                *)
(***************************************************************************)
RECURSIVE BackOverSpaces(_, _)
BackOverSpaces(s, p) ==
  IF p >= 1 /\ IsSpace(s[p]) THEN BackOverSpaces(s, p - 1) ELSE p

RECURSIVE OverSpaces(_, _)
OverSpaces(s, p) ==
  IF p <= Len(s) /\ IsSpace(s[p]) THEN OverSpaces(s, p + 1) ELSE p

RECURSIVE RunStart(_, _)
RunStart(s, j) ==
  IF j >= 1 /\ IsDigit(s[j]) THEN RunStart(s, j - 1) ELSE j + 1

RECURSIVE RunEnd(_, _)
RunEnd(s, k) ==
  IF k <= Len(s) /\ IsDigit(s[k]) THEN RunEnd(s, k + 1) ELSE k - 1

PairAround(s, c) ==
  LET j == BackOverSpaces(s, c - 1)
      i == RunStart(s, j)
      k == OverSpaces(s, c + 1)
      l == RunEnd(s, k)
  IN  [ok |-> /\ s[c] = ":"
              /\ i <= j /\ j - i + 1 <= 4
              /\ (i = 1 \/ ~IsWordChar(s[i - 1]))
              /\ k <= l /\ l - k + 1 <= 4
              /\ (l = Len(s) \/ ~IsWordChar(s[l + 1])),
       left |-> SubSeq(s, i, j),
       right |-> SubSeq(s, k, l)]

PairColons(s) == {c \in 1..Len(s) : PairAround(s, c).ok}
HasPair(s) == PairColons(s) # {}
FirstPair(s) == PairAround(s, Min(PairColons(s)))
FirstStart(s) == DecimalValue(FirstPair(s).left)
FirstEnd(s) == DecimalValue(FirstPair(s).right)
LaterPairInOrder(s) ==
  \E c \in PairColons(s) :
    /\ c # Min(PairColons(s))
    /\ DecimalValue(PairAround(s, c).left) < DecimalValue(PairAround(s, c).right)

\* A caption or text that is absent, empty, or holds no qualifying pair.
NoPairIn(opt) == ~opt.has \/ opt.v = <<>> \/ ~HasPair(opt.v)

(***************************************************************************)
(* Claims about parseTimecodes and convertToVoice (SpecParse).             *)
(***************************************************************************)

\* C5: when the first qualifying pair of the text has end > start, parseTimecodes
\* returns {start, end} with the integers written in that pair, whatever pairs
\* follow; "skip to 0:40 please" yields {start: 0, end: 40}.
C5_FirstPairInOrderIsReturned ==
  /\ (pPc # "parse" /\ HasPair(pIn) /\ FirstStart(pIn) < FirstEnd(pIn))
        => pOut = RangeResult(FirstStart(pIn), FirstEnd(pIn))
  /\ (pPc # "parse" /\ pIn = SkipTo040Please) => pOut = RangeResult(0, 40)

\* A text with two pairs, the later one out of order, was parsed to the first.
C5_Witness ==
  /\ pPc = "done"
  /\ Cardinality(PairColons(pIn)) >= 2
  /\ ~LaterPairInOrder(pIn)
  /\ pOut = RangeResult(0, 40)

\* C6: when the first qualifying pair has end <= start (end == start included),
\* parseTimecodes throws a TimecodeParseError and no range is returned, even if a
\* later pair of the text has end > start.
C6_FirstPairOutOfOrderFails ==
  (pPc # "parse" /\ HasPair(pIn) /\ FirstEnd(pIn) <= FirstStart(pIn))
     => /\ pOut.tag = "TimecodeParseError"
        /\ pPc = "done"
        /\ pCmd = NoCmd

\* A text whose first pair has end == start and a later pair end > start failed.
C6_Witness ==
  /\ pPc = "done"
  /\ HasPair(pIn)
  /\ FirstEnd(pIn) = FirstStart(pIn)
  /\ LaterPairInOrder(pIn)
  /\ pOut.tag = "TimecodeParseError"

\* C10: every range parseTimecodes returns has 0 <= start < end <= 9999, and
\* convertToVoice sets the start time to start and the duration to end - start,
\* which is at least 1; convertToVoice never rejects the interval, and
\* parseTimecodes never fails for a NaN or for start < 0.
C10_RangeReachingTranscoder ==
  /\ pOut.tag = "range" => (0 <= pOut.start /\ pOut.start < pOut.end /\ pOut.end <= 9999)
  /\ (pPc = "done" /\ pOut.tag = "range")
        => /\ pCmd = Command(Num(pOut.start), Num(pOut.end - pOut.start))
           /\ pCmd.duration.n >= 1
  /\ pCmd.state # "rejected"
  /\ pOut.reason \notin {"nan", "start < 0"}

\* The widest range, 0:9999, reached the transcoder.
C10_Witness ==
  /\ pPc = "done"
  /\ pOut = RangeResult(0, 9999)
  /\ pCmd = Command(Num(0), Num(9999))

(***************************************************************************)
(* Claims about the handlers (Spec: one update of any shape; SpecConc:     *)
(* NReq updates at once).                                                  *)
(***************************************************************************)
Allocated(r) == inputPath[r] # NoPath
Finished(r) == pc[r] = "done"
\* processAudio has returned or thrown, or was never called.
PastProcessAudio(r) ==
  pc[r] \in {"reply:hint", "reply:apology", "rejected", "reply:generic", "done"}
Voices(r) == {k \in 1..Len(sent[r]) : sent[r][k] = VoiceMessage}
Failures(r) == {k \in 1..Len(sent[r]) : sent[r][k] \in FailureMessages}

\* C1: once a request is past processAudio, whatever the outcome, neither of the
\* two temporary files processAudio named for it exists.
C1_NoTempFilesRemain ==
  \A r \in Reqs :
    (PastProcessAudio(r) /\ Allocated(r))
       => (inputPath[r] \notin files /\ outputPath[r] \notin files)

\* C2: when parseTimecodes throws a TimecodeParseError, the handler sends the
\* hint and returns: no path is built, no file link resolved, nothing downloaded,
\* no transcoder started, no voice reply and no apology sent.
C2_ParseErrorAbortsRequest ==
  \A r \in Reqs :
    trimRange[r].tag = "TimecodeParseError"
       => /\ pc[r] \in {"reply:hint", "rejected", "reply:generic", "done"}
          /\ ~Allocated(r) /\ outputPath[r] = NoPath
          /\ cmd[r] = NoCmd
          /\ ~failed[r] /\ unlinked[r] = {}
          /\ files = {}
          /\ Voices(r) = {}
          /\ ApologyMessage \notin {sent[r][k] : k \in 1..Len(sent[r])}
          /\ handler[r] = "resolved" => sent[r] = <<HintMessage>>

\* A request with the caption "40:10" got the hint and its handler returned.
C2_Witness ==
  \E r \in Reqs :
    /\ msg[r].caption = Some(T40to10)
    /\ trimRange[r].tag = "TimecodeParseError"
    /\ Finished(r) /\ handler[r] = "resolved"
    /\ sent[r] = <<HintMessage>>

\* C3 as stated: every completed request for an audio attachment has produced
\* exactly one message: the voice reply or one failure message.
C3_ExactlyOneOutcome ==
  \A r \in Reqs :
    (Finished(r) /\ handler[r] # "next") => Len(sent[r]) = 1

\* C3 as amended: a request never gets both a voice reply and a failure message,
\* nor two failure messages; a completed request has got exactly one of them
\* unless the sending of its failure message failed, in which case bot.catch ran
\* and the user got its one generic message or, if that failed too, nothing.
C3_AtMostOneOutcome ==
  \A r \in Reqs :
    /\ Len(sent[r]) <= 1
    /\ (Finished(r) /\ handler[r] = "resolved") => Len(sent[r]) = 1
    /\ (Finished(r) /\ handler[r] = "rejected")
          => (caught[r] /\ sent[r] \in {<<>>, <<GenericMessage>>})
    /\ Voices(r) # {} => (Failures(r) = {} /\ ~failed[r] /\ handler[r] # "rejected")

\* The apology could not be sent after a failed transcode, and the generic
\* message of bot.catch could not be sent either: the user got nothing.
C3_Witness ==
  \E r \in Reqs :
    /\ Finished(r) /\ failed[r] /\ cmd[r].state = "spawned"
    /\ caught[r]
    /\ sent[r] = <<>>

\* C4 as stated: no handler ever rejects and bot.catch is never reached.
C4_HandlerNeverRejects ==
  \A r \in Reqs : handler[r] # "rejected" /\ ~caught[r]

\* C4 as amended: a handler rejects, and bot.catch is reached, only when the send
\* of the hint or of the apology fails; a failure of the timecode parsing, of
\* ensureTmpDir, the link resolution, the download, the presence indicator, the
\* transcode or the voice reply ends in one of those two sends instead.
C4_RejectsOnlyWhenFailureMessageFails ==
  [][\A r \in Reqs :
       /\ (handler[r] = "pending" /\ handler'[r] = "rejected")
             => (pc[r] \in {"reply:hint", "reply:apology"} /\ sent'[r] = sent[r])
       /\ (~caught[r] /\ caught'[r]) => handler[r] = "rejected"
       /\ (failed'[r] /\ handler'[r] = "pending")
             => pc'[r] \in {"unlink", "reply:apology"}]_vars

\* A download failed, the apology could not be sent, and bot.catch ran.
C4_Witness ==
  \E r \in Reqs :
    /\ failed[r] /\ cmd[r] = NoCmd /\ Allocated(r)
    /\ handler[r] = "rejected"
    /\ caught[r]

\* The document filter as the specification words it.
DocumentIsAudio(m) ==
  \/ /\ m.mime_type.has
     /\ Len(m.mime_type.v) >= 6
     /\ \A k \in 1..6 : m.mime_type.v[k] = AudioPrefix[k]
  \/ /\ m.file_name.has
     /\ \E e \in AudioExtensions :
          /\ Len(m.file_name.v) >= Len(e)
          /\ \A k \in 1..Len(e) :
               ToLower(m.file_name.v[Len(m.file_name.v) - Len(e) + k]) = e[k]

\* C7: the document handler runs the audio pipeline exactly for the documents
\* whose MIME type starts with "audio/" or whose name ends, in any case, with an
\* audio extension; any other document goes to next() with no parsing, no
\* download, no transcode and no reply.
C7_DocumentFilter ==
  \A r \in Reqs :
    (msg[r].kind = "document" /\ pc[r] # "update")
       => /\ handler[r] = "next" <=> ~DocumentIsAudio(msg[r])
          /\ handler[r] = "next"
                => /\ Finished(r)
                   /\ trimRange[r] = Pending
                   /\ ~Allocated(r) /\ outputPath[r] = NoPath
                   /\ cmd[r] = NoCmd
                   /\ sent[r] = <<>>
                   /\ files = {}
          /\ handler[r] # "next" => trimRange[r] # Pending

\* A document of type audio/mpeg whose name has no audio extension is transcoded.
C7_Witness ==
  \E r \in Reqs :
    /\ msg[r].kind = "document"
    /\ msg[r].mime_type = Some(<<"a", "u", "d", "i", "o", "/", "m", "p", "e", "g">>)
    /\ msg[r].file_name = Some(<<"c", ".", "p", "d", "f">>)
    /\ pc[r] = "ffmpeg"

\* C8: a message whose caption and text are absent, empty or without a qualifying
\* pair is parsed to null and goes on to processAudio; the transcoder is started
\* with neither a start time nor a duration.
C8_NoTimecodesNoTrim ==
  \A r \in Reqs :
    (/\ msg[r].kind \in {"audio", "document"}
     /\ pc[r] # "update" /\ handler[r] # "next"
     /\ NoPairIn(msg[r].caption) /\ NoPairIn(msg[r].text))
       => /\ trimRange[r] = NullResult
          /\ pc[r] # "reply:hint" /\ HintMessage \notin {sent[r][k] : k \in 1..Len(sent[r])}
          /\ cmd[r] \in {NoCmd, Command(Undefined, Undefined)}
          /\ pc[r] \in {"ffmpeg", "replyWithVoice"} => cmd[r] = Command(Undefined, Undefined)
          /\ Voices(r) # {} => cmd[r] = Command(Undefined, Undefined)

\* An audio message captioned "hi" was transcoded whole and sent.
C8_Witness ==
  \E r \in Reqs :
    /\ msg[r].kind = "audio"
    /\ msg[r].caption = Some(THi) /\ msg[r].text = None
    /\ Finished(r)
    /\ sent[r] = <<VoiceMessage>>
    /\ cmd[r] = Command(Undefined, Undefined)

\* C9: the paths of the requests are pairwise distinct, within a request and
\* across requests, and every file in the temp directory is a path of one request;
\* so the file a request is about to transcode or to send is there, whatever the
\* other requests write and unlink.
C9_RequestsTouchOnlyTheirOwnFiles ==
  /\ \A r \in Reqs : Allocated(r) => inputPath[r] # outputPath[r]
  /\ \A r1, r2 \in Reqs :
       (r1 # r2 /\ Allocated(r1) /\ Allocated(r2))
          => {inputPath[r1], outputPath[r1]} \cap {inputPath[r2], outputPath[r2]} = {}
  /\ \A f \in files :
       \E r \in Reqs : Allocated(r) /\ f \in {inputPath[r], outputPath[r]}
  /\ \A r \in Reqs :
       /\ (pc[r] = "downloadFile" /\ stream[r] = "open") => inputPath[r] \in files
       /\ pc[r] \in {"sendChatAction", "ffmpeg"} => inputPath[r] \in files
       /\ pc[r] = "replyWithVoice" => {inputPath[r], outputPath[r]} \subseteq files

\* Two requests named their files in the same millisecond; one has unlinked both
\* of its files while the other is still waiting to send its output file.
C9_Witness ==
  \E r1, r2 \in Reqs :
    /\ r1 # r2
    /\ Allocated(r1) /\ Allocated(r2)
    /\ inputPath[r1].stamp = inputPath[r2].stamp
    /\ inputPath[r1].suffix = outputPath[r2].suffix
    /\ Finished(r1) /\ cmd[r1].state = "spawned"
    /\ pc[r2] = "replyWithVoice"

====
